---- MODULE Spec2Model ----
(***************************************************************************)
(* RMC75EClient: register read/write client for the Delta RMC75E over      *)
(* EtherNet/IP explicit messaging (src/src/rmc75e/RMC75EClient.cpp).       *)
(*                                                                         *)
(* Modelling conventions                                                   *)
(*  - a byte is a number in 0..255, a byte vector a sequence of bytes;     *)
(*  - a 32-bit register value (float or int32_t) is modelled by its bit    *)
(*    pattern, written as the two's-complement number in -2^31..2^31-1     *)
(*    (for a float: the IEEE-754 word read as int32_t).  memcpy moves bit  *)
(*    patterns, so this is all the code can observe of a value;            *)
(*  - memcpy between a byte buffer and a value array is modelled for a     *)
(*    little-endian host (the x86/ARM builds the project produces);        *)
(*  - the external transport (eipScanner::MessageRouter::sendRequest) is   *)
(*    an environment that answers every request with any reply or throws.  *)
(***************************************************************************)
EXTENDS Integers, Sequences, FiniteSets, TLC

VARIABLES
    sessionInfo,   \* sessionInfo_: NoSession (nullptr) or the id of the SessionInfo object held
    created,       \* number of SessionInfo objects constructed so far
    pre,           \* sessionInfo_ as it was on entry to the most recent call
    call,          \* the most recent call of the public API and its arguments
    sent,          \* requests handed to messageRouter_.sendRequest during that call
    response,      \* what the transport answered during that call
    outcome,       \* what the call gave back to its caller (return value or exception)
    rt             \* the write-then-read-back pipeline of the codec specification

vars == <<sessionInfo, created, pre, call, sent, response, outcome, rt>>

clientVars == <<sessionInfo, created, pre, call, sent, response, outcome>>

-----------------------------------------------------------------------------
(* Program constants                                                       *)

REGISTER_MAP_CLASS == 192

REGISTER_MAP_INSTANCE == 1

SVC_READ_LSB == 75

SVC_WRITE_LSB == 76

SVC_READ_MSB == 77

SVC_WRITE_MSB == 78

\* GeneralStatusCodes::SUCCESS of the CIP library
SUCCESS == 0

\* sessionInfo_ == nullptr
NoSession == 0

-----------------------------------------------------------------------------
(* Bounds and input samples                                                *)

\* SessionInfo objects that may be constructed in one run
MaxSessions == 2

\* longest value array (below the 16-bit limit) passed to a write
MaxValues == 2

\* longest response data the transport returns
MaxData == 8

\* uint16_t wraps at 2^16
U16(n) == n % 65536

\* register addresses <<file, element>>: F57:30 of the example program, and one
\* whose fields have distinct non-zero low and high bytes
Addresses == {<<57, 30>>, <<4660, 65535>>}

Counts == {0, 1, 2, 65535}

\* bit patterns: 3.14f (0x4048F5C3), INT32_MIN (0x80000000), -2 (0xFFFFFFFE), repeated
ValuePattern == <<1078523331, -2147483647 - 1, -2>>

ValueAt(i) == ValuePattern[((i - 1) % Len(ValuePattern)) + 1]

ShortArrays == {[i \in 1..n |-> ValueAt(i)] : n \in 0..MaxValues}

\* a std::vector with 2^16 + 1 elements: size() does not fit a uint16_t
LongArray == <<-2>> \o [i \in 1..65536 |-> 1078523331]

Arrays == ShortArrays \cup {LongArray}

\* response bytes: 3.14f, 1.0f, -1 as little-endian words, repeated
BasePattern == <<195, 245, 72, 64, 0, 0, 128, 63, 255, 255, 255, 255>>

BaseByte(k) == BasePattern[((k - 1) % Len(BasePattern)) + 1]

DataPool == {[k \in 1..n |-> BaseByte(k)] : n \in 0..MaxData}

\* non-success general status codes: 0x08 (service not supported), 0x1E (embedded service error)
FailCodes == {8, 30}

AdditionalPool == {<<>>, <<255, 4660>>}

RawServices == {SVC_READ_LSB, SVC_READ_MSB, 14}

RawPayloads == {<<57, 0, 30, 0, 1, 0>>, <<1, 2, 3>>}

-----------------------------------------------------------------------------
(* Payload codec                                                           *)

\* static_cast<uint8_t>(x & 0xFF)
LowByte(x) == x % 256

\* static_cast<uint8_t>(x >> 8), x a uint16_t
HighByte(x) == (x \div 256) % 256

\* mutant: each field high byte first
buildReadPayload_BigEndian(file, element, count) ==
    <<HighByte(file), LowByte(file),
      HighByte(element), LowByte(element),
      HighByte(count), LowByte(count)>>

\* buildReadPayload(file, element, count): the parameters are uint16_t
buildReadPayload(file, element, count) ==
    <<LowByte(file), HighByte(file),
      LowByte(element), HighByte(element),
      LowByte(count), HighByte(count)>>

\* mutant: the memory image most significant byte first
ByteOf_BigEndian(v, k) == (v \div (256 ^ (3 - k))) % 256

\* byte k (0..3) of the in-memory image of a 32-bit value, least significant first
ByteOf(v, k) == (v \div (256 ^ k)) % 256

\* the first n bytes of the memory image of a value array
MemoryImage(values, n) == [j \in 1..n |-> ByteOf(values[((j - 1) \div 4) + 1], (j - 1) % 4)]

\* buildWritePayload(file, element, values, count): count is a uint16_t;
\* 6 header bytes, then memcpy(payload.data() + 6, values, count * 4)
buildWritePayload(file, element, values, count) ==
    <<LowByte(file), HighByte(file),
      LowByte(element), HighByte(element),
      LowByte(count), HighByte(count)>> \o MemoryImage(values, count * 4)

\* the count argument writeFloat/writeInt32 pass: static_cast<uint16_t>(values.size())
WriteCount(values) == U16(Len(values))

\* mutant: the 4 bytes read most significant first
WordAt_BigEndian(raw, off) ==
    raw[off + 4] + 256 * raw[off + 3] + 65536 * raw[off + 2]
      + 16777216 * (IF raw[off + 1] >= 128 THEN raw[off + 1] - 256 ELSE raw[off + 1])

\* the 32-bit value whose memory image is the 4 bytes of raw starting at offset off
WordAt(raw, off) ==
    raw[off + 1] + 256 * raw[off + 2] + 65536 * raw[off + 3]
      + 16777216 * (IF raw[off + 4] >= 128 THEN raw[off + 4] - 256 ELSE raw[off + 4])

\* std::vector<T> result(count); memcpy(result.data(), raw.data(), count * sizeof(T))
decodeValues(raw, count) == [i \in 1..count |-> WordAt(raw, 4 * (i - 1))]

\* mutant: raw.size() <= count * 4
TooShort_OffByOne(raw, count) == Len(raw) <= count * 4

\* the size check of readFloat/readInt32: raw.size() < count * 4
TooShort(raw, count) == Len(raw) < count * 4

-----------------------------------------------------------------------------
(* Error messages                                                          *)

HexDigits == <<"0", "1", "2", "3", "4", "5", "6", "7", "8", "9", "a", "b", "c", "d", "e", "f">>

\* operator<< of an integer under std::hex: lower-case digits, no leading zeros
RECURSIVE Hex(_)
Hex(n) == IF n < 16 THEN <<HexDigits[n + 1]>> ELSE Append(Hex(n \div 16), HexDigits[(n % 16) + 1])

NoErr == [what |-> "", service |-> <<>>, status |-> <<>>, additional |-> <<>>,
          expected |-> 0, got |-> 0]

\* "Not connected - call connect() first"
NotConnectedErr == [NoErr EXCEPT !.what = "Not connected - call connect() first"]

\* mutant: the loop over the additional status stops after the first word
StatusErr_FirstWordOnly(service, status, additional) ==
    [NoErr EXCEPT !.what = "CIP request failed",
                  !.service = Hex(service),
                  !.status = Hex(status),
                  !.additional = [i \in 1..(IF Len(additional) > 0 THEN 1 ELSE 0) |->
                                     Hex(additional[i])]]

\* "CIP request failed: service=0x.. status=0x.. additional=[0x.., 0x..]"
StatusErr(service, status, additional) ==
    [NoErr EXCEPT !.what = "CIP request failed",
                  !.service = Hex(service),
                  !.status = Hex(status),
                  !.additional = [i \in 1..Len(additional) |-> Hex(additional[i])]]

\* "<name>: expected <count*4> bytes, got <raw.size()>"
SizeErr(name, count, raw) ==
    [NoErr EXCEPT !.what = name, !.expected = count * 4, !.got = Len(raw)]

\* an exception of the transport, passed on as it is
TransportErr == [NoErr EXCEPT !.what = "transport exception"]

\* "Failed to connect to RMC75E at <address>: <what>"
ConnectErr == [NoErr EXCEPT !.what = "Failed to connect to RMC75E"]

-----------------------------------------------------------------------------
(* Transport                                                               *)

NoResponse == [kind |-> "none", status |-> 0, additional |-> <<>>, data |-> <<>>]

Throws == [kind |-> "throw", status |-> 0, additional |-> <<>>, data |-> <<>>]

Reply(status, additional, data) ==
    [kind |-> "reply", status |-> status, additional |-> additional, data |-> data]

\* everything sendRequest may do with a request
Answers ==
    {Throws}
      \cup {Reply(SUCCESS, <<>>, d) : d \in DataPool}
      \cup {Reply(s, a, <<195, 245, 72, 64>>) : s \in FailCodes, a \in AdditionalPool}

\* mutant: EPath(REGISTER_MAP_INSTANCE, REGISTER_MAP_CLASS)
Request_PathSwapped(session, service, payload) ==
    [session |-> session, service |-> service,
     class |-> REGISTER_MAP_INSTANCE, instance |-> REGISTER_MAP_CLASS,
     payload |-> payload]

\* the arguments of messageRouter_.sendRequest
Request(session, service, payload) ==
    [session |-> session, service |-> service,
     class |-> REGISTER_MAP_CLASS, instance |-> REGISTER_MAP_INSTANCE,
     payload |-> payload]

-----------------------------------------------------------------------------
(* Request executor                                                        *)

Outcome(kind, values, bytes, err) ==
    [kind |-> kind, values |-> values, bytes |-> bytes, err |-> err]

\* mutant: no check of sessionInfo_ before the request is sent
executeRequest_NoSessionCheck(session, service, payload, ans) ==
    LET req == Request(session, service, payload)
    IN  IF ans.kind = "throw"
        THEN [sent |-> <<req>>, response |-> ans,
              kind |-> "transport", data |-> <<>>, err |-> TransportErr]
        ELSE IF ans.status # SUCCESS
        THEN [sent |-> <<req>>, response |-> ans,
              kind |-> "status", data |-> <<>>,
              err |-> StatusErr(service, ans.status, ans.additional)]
        ELSE [sent |-> <<req>>, response |-> ans,
              kind |-> "ok", data |-> ans.data, err |-> NoErr]

\* mutant: a request the transport failed is sent a second time
executeRequest_RetryOnThrow(session, service, payload, ans) ==
    IF session = NoSession
    THEN [sent |-> <<>>, response |-> NoResponse,
          kind |-> "not_connected", data |-> <<>>, err |-> NotConnectedErr]
    ELSE LET req == Request(session, service, payload)
         IN  IF ans.kind = "throw"
             THEN [sent |-> <<req, req>>, response |-> ans,
                   kind |-> "transport", data |-> <<>>, err |-> TransportErr]
             ELSE IF ans.status # SUCCESS
             THEN [sent |-> <<req>>, response |-> ans,
                   kind |-> "status", data |-> <<>>,
                   err |-> StatusErr(service, ans.status, ans.additional)]
             ELSE [sent |-> <<req>>, response |-> ans,
                   kind |-> "ok", data |-> ans.data, err |-> NoErr]

\* executeRequest(service, payload) when the transport answers ans:
\* the requests sent, the answer consumed and the result (data or exception)
executeRequest(session, service, payload, ans) ==
    IF session = NoSession
    THEN [sent |-> <<>>, response |-> NoResponse,
          kind |-> "not_connected", data |-> <<>>, err |-> NotConnectedErr]
    ELSE LET req == Request(session, service, payload)
         IN  IF ans.kind = "throw"
             THEN [sent |-> <<req>>, response |-> ans,
                   kind |-> "transport", data |-> <<>>, err |-> TransportErr]
             ELSE IF ans.status # SUCCESS
             THEN [sent |-> <<req>>, response |-> ans,
                   kind |-> "status", data |-> <<>>,
                   err |-> StatusErr(service, ans.status, ans.additional)]
             ELSE [sent |-> <<req>>, response |-> ans,
                   kind |-> "ok", data |-> ans.data, err |-> NoErr]

\* mutant: the size of the reply is checked before its general status
readResult_SizeBeforeStatus(name, r, count) ==
    IF r.kind \in {"not_connected", "transport"} THEN Outcome(r.kind, <<>>, <<>>, r.err)
    ELSE IF TooShort(r.response.data, count)
    THEN Outcome("size", <<>>, <<>>, SizeErr(name, count, r.response.data))
    ELSE IF r.kind # "ok" THEN Outcome(r.kind, <<>>, <<>>, r.err)
    ELSE Outcome("ok", decodeValues(r.data, count), <<>>, NoErr)

\* readFloat/readInt32 after executeRequest returned r
readResult(name, r, count) ==
    IF r.kind # "ok" THEN Outcome(r.kind, <<>>, <<>>, r.err)
    ELSE IF TooShort(r.data, count) THEN Outcome("size", <<>>, <<>>, SizeErr(name, count, r.data))
    ELSE Outcome("ok", decodeValues(r.data, count), <<>>, NoErr)

\* writeFloat/writeInt32 after executeRequest returned r: the data is discarded
writeResult(r) ==
    IF r.kind # "ok" THEN Outcome(r.kind, <<>>, <<>>, r.err)
    ELSE Outcome("ok", <<>>, <<>>, NoErr)

\* sendRawRequest after executeRequest returned r
rawResult(r) ==
    IF r.kind # "ok" THEN Outcome(r.kind, <<>>, <<>>, r.err)
    ELSE Outcome("ok", <<>>, r.data, NoErr)

-----------------------------------------------------------------------------
(* The client                                                              *)

\* a call and its arguments; of a value array only size() is kept
Call(op, file, element, count, size, service, data) ==
    [op |-> op, file |-> file, element |-> element, count |-> count,
     size |-> size, service |-> service, data |-> data]

ReadOps == {"readFloat", "readInt32"}

WriteOps == {"writeFloat", "writeInt32"}

RegisterOps == ReadOps \cup WriteOps \cup {"sendRawRequest"}

NoCall == Call("none", 0, 0, 0, 0, 0, <<>>)

NoOutcome == Outcome("none", <<>>, <<>>, NoErr)

RtIdle == [pc |-> "idle", name |-> "", file |-> 0, element |-> 0, values |-> <<>>,
           payload |-> <<>>, count |-> 0, result |-> NoOutcome]

\* the constructor: no session yet
Init ==
    /\ sessionInfo = NoSession
    /\ created = 0
    /\ pre = NoSession
    /\ call = NoCall
    /\ sent = <<>>
    /\ response = NoResponse
    /\ outcome = NoOutcome
    /\ rt = RtIdle

\* mutant: connect() without the test for an existing session
Connect_NoConnectedCheck(established) ==
    /\ established => created < MaxSessions
    /\ pre' = sessionInfo
    /\ call' = Call("connect", 0, 0, 0, 0, 0, <<>>)
    /\ sent' = <<>>
    /\ response' = NoResponse
    /\ IF established
       THEN /\ sessionInfo' = created + 1
            /\ created' = created + 1
            /\ outcome' = Outcome("ok", <<>>, <<>>, NoErr)
       ELSE /\ sessionInfo' = NoSession
            /\ UNCHANGED created
            /\ outcome' = Outcome("connect_failed", <<>>, <<>>, ConnectErr)
    /\ UNCHANGED rt

\* connect(): established says whether the SessionInfo constructor succeeds
Connect(established) ==
    /\ (sessionInfo = NoSession /\ established) => created < MaxSessions
    /\ pre' = sessionInfo
    /\ call' = Call("connect", 0, 0, 0, 0, 0, <<>>)
    /\ sent' = <<>>
    /\ response' = NoResponse
    /\ IF sessionInfo # NoSession
       THEN /\ UNCHANGED <<sessionInfo, created>>
            /\ outcome' = Outcome("ok", <<>>, <<>>, NoErr)
       ELSE IF established
       THEN /\ sessionInfo' = created + 1
            /\ created' = created + 1
            /\ outcome' = Outcome("ok", <<>>, <<>>, NoErr)
       ELSE /\ sessionInfo' = NoSession
            /\ UNCHANGED created
            /\ outcome' = Outcome("connect_failed", <<>>, <<>>, ConnectErr)
    /\ UNCHANGED rt

\* disconnect()
Disconnect ==
    /\ pre' = sessionInfo
    /\ call' = Call("disconnect", 0, 0, 0, 0, 0, <<>>)
    /\ sent' = <<>>
    /\ response' = NoResponse
    /\ sessionInfo' = NoSession
    /\ outcome' = Outcome("ok", <<>>, <<>>, NoErr)
    /\ UNCHANGED <<created, rt>>

\* isConnected()
isConnected == sessionInfo # NoSession

\* mutant: a read that fails drops the session
Read_DropSessionOnFailure(name, file, element, count, ans) ==
    LET r == executeRequest(sessionInfo, SVC_READ_LSB, buildReadPayload(file, element, count), ans)
        result == readResult(name, r, count)
    IN  /\ pre' = sessionInfo
        /\ call' = Call(name, file, element, count, 0, 0, <<>>)
        /\ sent' = r.sent
        /\ response' = r.response
        /\ outcome' = result
        /\ sessionInfo' = (IF result.kind = "ok" THEN sessionInfo ELSE NoSession)
        /\ UNCHANGED <<created, rt>>

\* the common shape of readFloat and readInt32
Read(name, file, element, count, ans) ==
    LET r == executeRequest(sessionInfo, SVC_READ_LSB, buildReadPayload(file, element, count), ans)
    IN  /\ pre' = sessionInfo
        /\ call' = Call(name, file, element, count, 0, 0, <<>>)
        /\ sent' = r.sent
        /\ response' = r.response
        /\ outcome' = readResult(name, r, count)
        /\ UNCHANGED <<sessionInfo, created, rt>>

\* the common shape of writeFloat and writeInt32
Write(name, file, element, values, ans) ==
    LET payload == buildWritePayload(file, element, values, WriteCount(values))
        r == executeRequest(sessionInfo, SVC_WRITE_LSB, payload, ans)
    IN  /\ pre' = sessionInfo
        /\ call' = Call(name, file, element, 0, Len(values), 0, <<>>)
        /\ sent' = r.sent
        /\ response' = r.response
        /\ outcome' = writeResult(r)
        /\ UNCHANGED <<sessionInfo, created, rt>>

readFloat(file, element, count, ans) == Read("readFloat", file, element, count, ans)

readInt32(file, element, count, ans) == Read("readInt32", file, element, count, ans)

writeFloat(file, element, values, ans) == Write("writeFloat", file, element, values, ans)

writeInt32(file, element, values, ans) == Write("writeInt32", file, element, values, ans)

sendRawRequest(service, data, ans) ==
    LET r == executeRequest(sessionInfo, service, data, ans)
    IN  /\ pre' = sessionInfo
        /\ call' = Call("sendRawRequest", 0, 0, 0, 0, service, data)
        /\ sent' = r.sent
        /\ response' = r.response
        /\ outcome' = rawResult(r)
        /\ UNCHANGED <<sessionInfo, created, rt>>

Next ==
    \/ \E established \in BOOLEAN : Connect(established)
    \/ Disconnect
    \/ \E a \in Addresses, c \in Counts, ans \in Answers : readFloat(a[1], a[2], c, ans)
    \/ \E a \in Addresses, c \in Counts, ans \in Answers : readInt32(a[1], a[2], c, ans)
    \/ \E a \in Addresses, v \in Arrays, ans \in Answers : writeFloat(a[1], a[2], v, ans)
    \/ \E a \in Addresses, v \in Arrays, ans \in Answers : writeInt32(a[1], a[2], v, ans)
    \/ \E s \in RawServices, d \in RawPayloads, ans \in Answers : sendRawRequest(s, d, ans)

Spec == Init /\ [][Next]_vars

-----------------------------------------------------------------------------
(* Write then read back: the payload codec on its own.  A value array is   *)
(* written, and the data section of the payload the transport received is  *)
(* what the transport returns to a read of count values (as a register     *)
(* that stores what was written does).                                     *)

\* the bytes of a write payload after the 6-byte header
DataSection(payload) == SubSeq(payload, 7, Len(payload))

ReadBackCounts == Counts \cup (0..(MaxValues + 1))

\* the client after a first successful connect()
InitCodec ==
    /\ sessionInfo = 1
    /\ created = 1
    /\ pre = NoSession
    /\ call = NoCall
    /\ sent = <<>>
    /\ response = NoResponse
    /\ outcome = NoOutcome
    /\ \E name \in ReadOps, a \in Addresses, v \in Arrays :
          rt = [RtIdle EXCEPT !.pc = "start", !.name = name,
                              !.file = a[1], !.element = a[2], !.values = v]

\* writeFloat/writeInt32(file, element, values): the payload handed to the transport
CodecWrite ==
    /\ rt.pc = "start"
    /\ rt' = [rt EXCEPT !.pc = "written",
                        !.payload = buildWritePayload(rt.file, rt.element, rt.values,
                                                      WriteCount(rt.values))]
    /\ UNCHANGED clientVars

\* readFloat/readInt32(file, element, count) answered with the data section written
CodecReadBack(count) ==
    /\ rt.pc = "written"
    /\ LET ans == Reply(SUCCESS, <<>>, DataSection(rt.payload))
           r == executeRequest(sessionInfo, SVC_READ_LSB,
                               buildReadPayload(rt.file, rt.element, count), ans)
       IN  rt' = [rt EXCEPT !.pc = "read", !.count = count,
                            !.result = readResult(rt.name, r, count)]
    /\ UNCHANGED clientVars

NextCodec ==
    \/ CodecWrite
    \/ \E c \in ReadBackCounts : CodecReadBack(c)

SpecCodec == InitCodec /\ [][NextCodec]_vars

-----------------------------------------------------------------------------
(* Properties                                                              *)

HexValue(d) == CHOOSE k \in 0..15 : HexDigits[k + 1] = d

\* the number a string of hexadecimal digits denotes
RECURSIVE FromHex(_)
FromHex(s) ==
    IF Len(s) = 0 THEN 0
    ELSE 16 * FromHex(SubSeq(s, 1, Len(s) - 1)) + HexValue(s[Len(s)])

\* v is the 32-bit value whose little-endian bytes are b0 b1 b2 b3
IsLittleEndianOf(v, b0, b1, b2, b3) ==
    /\ v >= -2147483647 - 1
    /\ v <= 2147483647
    /\ v % 256 = b0
    /\ (v \div 256) % 256 = b1
    /\ (v \div 65536) % 256 = b2
    /\ (v \div 16777216) % 256 = b3

\* C1: a register operation called without a session fails with the not-connected
\* error and hands no request to the transport.
C1_NotConnectedFails ==
    (call.op \in RegisterOps /\ pre = NoSession) =>
        /\ outcome.kind = "not_connected"
        /\ outcome.err.what = "Not connected - call connect() first"
        /\ outcome.values = <<>> /\ outcome.bytes = <<>>
        /\ sent = <<>>
        /\ response.kind = "none"

\* a write attempted after connect() and disconnect() was refused
C1_Witness ==
    /\ call.op = "writeFloat" /\ pre = NoSession /\ created >= 1
    /\ outcome.kind = "not_connected" /\ sent = <<>>

\* C2: on a connected client a success reply gives sendRawRequest exactly the reply's
\* data bytes; a reply with any other general status makes every register operation
\* fail with a status error whose text holds the status code and every additional
\* status word, and nothing is returned.
C2_StatusDecidesResult ==
    (call.op \in RegisterOps /\ pre # NoSession /\ response.kind = "reply") =>
        IF response.status = 0
        THEN (call.op = "sendRawRequest") =>
                 (outcome.kind = "ok" /\ outcome.bytes = response.data)
        ELSE /\ outcome.kind = "status"
             /\ outcome.err.what = "CIP request failed"
             /\ FromHex(outcome.err.status) = response.status
             /\ Len(outcome.err.additional) = Len(response.additional)
             /\ \A i \in 1..Len(response.additional) :
                    FromHex(outcome.err.additional[i]) = response.additional[i]
             /\ outcome.values = <<>> /\ outcome.bytes = <<>>

\* a read answered with status 0x1E, two additional words and 4 data bytes failed
\* with the status error
C2_Witness ==
    /\ call.op = "readFloat" /\ pre # NoSession
    /\ response.kind = "reply" /\ response.status = 30
    /\ Len(response.additional) = 2 /\ Len(response.data) = 4
    /\ outcome.kind = "status" /\ Len(outcome.err.additional) = 2

\* C3: a read answered with success fails with the size-mismatch error exactly when
\* the reply holds fewer than 4*count bytes; excess bytes are accepted.
C3_SizeMismatchIff ==
    (call.op \in ReadOps /\ pre # NoSession /\ response.kind = "reply" /\ response.status = 0) =>
        /\ outcome.kind \in {"ok", "size"}
        /\ (outcome.kind = "size") <=> (Len(response.data) < 4 * call.count)
        /\ (outcome.kind = "size") =>
               /\ outcome.err.what = call.op
               /\ outcome.err.expected = 4 * call.count
               /\ outcome.err.got = Len(response.data)
               /\ outcome.values = <<>>

\* count = 2 answered with 4 bytes: the size-mismatch error
C3_Witness ==
    /\ call.op = "readFloat" /\ pre # NoSession /\ call.count = 2
    /\ response.kind = "reply" /\ response.status = 0 /\ Len(response.data) = 4
    /\ outcome.kind = "size"

\* C4: a successful read returns exactly count values, value i being the 32-bit
\* little-endian reading of reply bytes 4i..4i+3 (i from 0); later bytes play no part.
C4_ReadDecodesLittleEndian ==
    (call.op \in ReadOps /\ outcome.kind = "ok") =>
        /\ Len(outcome.values) = call.count
        /\ \A i \in 1..call.count :
              IsLittleEndianOf(outcome.values[i],
                               response.data[4 * i - 3], response.data[4 * i - 2],
                               response.data[4 * i - 1], response.data[4 * i])

\* one value read from an 8-byte reply: 3.14f, the 4 excess bytes ignored
C4_Witness ==
    /\ call.op = "readFloat" /\ outcome.kind = "ok" /\ call.count = 1
    /\ Len(response.data) = 8
    /\ outcome.values = <<1078523331>>

\* C5: the payload of a read request is the 6 bytes file, element, count, each as
\* low byte then high byte, the count as given (0 and 65535 included).
C5_ReadPayloadLayout ==
    (call.op \in ReadOps /\ pre # NoSession) =>
        /\ Len(sent) = 1
        /\ sent[1].payload = <<call.file % 256, call.file \div 256,
                               call.element % 256, call.element \div 256,
                               call.count % 256, call.count \div 256>>
        /\ (call.file = 57 /\ call.element = 30 /\ call.count = 1) =>
               sent[1].payload = <<57, 0, 30, 0, 1, 0>>
        /\ (call.count = 65535) => SubSeq(sent[1].payload, 5, 6) = <<255, 255>>

\* the read of F57:30, count 1, of the example program
C5_Witness ==
    /\ call.op = "readFloat" /\ pre # NoSession
    /\ call.file = 57 /\ call.element = 30 /\ call.count = 1
    /\ Len(sent) = 1 /\ sent[1].payload = <<57, 0, 30, 0, 1, 0>>

\* C6: the payload of a write of n values has 6 + 4n bytes and starts with the
\* read header for (file, element, n), whatever n is.
C6_WritePayloadLength ==
    (call.op \in WriteOps /\ pre # NoSession) =>
        /\ Len(sent) = 1
        /\ Len(sent[1].payload) = 6 + 4 * call.size
        /\ SubSeq(sent[1].payload, 1, 6) = buildReadPayload(call.file, call.element, call.size)

\* C6 for the arrays whose size fits the 16-bit count field
C6_WritePayloadLengthUpTo16Bit ==
    (call.op \in WriteOps /\ pre # NoSession /\ call.size <= 65535) =>
        /\ Len(sent) = 1
        /\ Len(sent[1].payload) = 6 + 4 * call.size
        /\ SubSeq(sent[1].payload, 1, 6) = buildReadPayload(call.file, call.element, call.size)

\* C7: an array written and read back with count = its length comes back equal,
\* value by value, through the float and through the int32 accessors.
C7_RoundTrip ==
    (rt.pc = "read" /\ rt.count = Len(rt.values)) =>
        /\ rt.result.kind = "ok"
        /\ rt.result.values = rt.values

\* two values, 3.14f and INT32_MIN, came back in order
C7_Witness ==
    /\ rt.pc = "read" /\ rt.count = 2 /\ Len(rt.values) = 2
    /\ rt.values[1] # rt.values[2]
    /\ Len(rt.payload) = 14
    /\ rt.result.kind = "ok" /\ rt.result.values = rt.values

\* C8: every request handed to the transport targets class 0xC0 instance 1, with
\* service 0x4B from a read, 0x4C from a write, and the caller's service and payload
\* from sendRawRequest; reads and writes never use 0x4D or 0x4E.
C8_RequestTarget ==
    \A i \in 1..Len(sent) :
        /\ sent[i].class = 192
        /\ sent[i].instance = 1
        /\ (call.op \in ReadOps) => sent[i].service = 75
        /\ (call.op \in WriteOps) => sent[i].service = 76
        /\ (call.op \in ReadOps \cup WriteOps) => sent[i].service \notin {77, 78}
        /\ (call.op = "sendRawRequest") =>
               (sent[i].service = call.service /\ sent[i].payload = call.data)
        /\ call.op \in RegisterOps

\* sendRawRequest passed the caller's service 0x4D on
C8_Witness ==
    /\ call.op = "sendRawRequest" /\ call.service = 77
    /\ Len(sent) = 1 /\ sent[1].service = 77 /\ sent[1].class = 192

\* C9: connect() on a connected client keeps the session it has and creates none;
\* disconnect() on a client without a session changes nothing; neither raises.
C9_Idempotent ==
    [][ /\ (call'.op = "connect" /\ sessionInfo # NoSession) =>
               (sessionInfo' = sessionInfo /\ created' = created /\ outcome'.kind = "ok")
        /\ (call'.op = "disconnect" /\ sessionInfo = NoSession) =>
               (sessionInfo' = NoSession /\ created' = created /\ outcome'.kind = "ok")
      ]_vars

\* connect() was called on a connected client
C9_Witness ==
    /\ call.op = "connect" /\ pre # NoSession
    /\ sessionInfo = pre /\ outcome.kind = "ok"

\* C10: a register operation hands exactly one request to the transport when the
\* client has a session, whatever the outcome, and none when it has not.
C10_OneRequestPerCall ==
    (call.op \in RegisterOps) =>
        /\ Len(sent) = (IF pre = NoSession THEN 0 ELSE 1)
        /\ (pre # NoSession) => outcome.kind \in {"ok", "status", "size", "transport"}

\* the transport threw and the call sent its one request
C10_Witness ==
    /\ call.op = "readInt32" /\ pre # NoSession
    /\ outcome.kind = "transport" /\ Len(sent) = 1

\* C11: isConnected() is true exactly when the last session-changing event was a
\* successful connect(): a failed connect() and disconnect() leave the client
\* disconnected, a connect() that returns leaves it connected, and a register
\* operation leaves the session as it found it, also when it fails.
C11_ConnectedIffLastConnectSucceeded ==
    /\ (call.op = "none") => ~isConnected
    /\ (call.op = "connect" /\ outcome.kind = "ok") =>
           (isConnected /\ (pre # NoSession => sessionInfo = pre))
    /\ (call.op = "connect" /\ outcome.kind # "ok") =>
           (outcome.kind = "connect_failed" /\ pre = NoSession /\ ~isConnected)
    /\ (call.op = "disconnect") => ~isConnected
    /\ (call.op \in RegisterOps) => sessionInfo = pre
    /\ (call.op \in RegisterOps /\ outcome.kind \in {"status", "size", "transport"}) =>
           isConnected

\* a read failed with the size-mismatch error and the client is still connected
C11_Witness ==
    /\ call.op = "readFloat" /\ outcome.kind = "size"
    /\ pre # NoSession /\ isConnected /\ sessionInfo = pre

\* C12: a read checks for the session first, then the general status, then the size
\* of the reply: without a session it fails as not connected; a reply with a
\* non-success status gives the status error also when its data is shorter than
\* 4*count bytes; the size-mismatch error is raised only for a success reply.
C12_ErrorCheckOrder ==
    (call.op \in ReadOps) =>
        /\ (pre = NoSession) => outcome.kind = "not_connected"
        /\ (pre # NoSession /\ response.kind = "reply" /\ response.status # 0) =>
               (outcome.kind = "status" /\ outcome.err.what = "CIP request failed")
        /\ (outcome.kind = "size") =>
               /\ pre # NoSession
               /\ response.kind = "reply"
               /\ response.status = 0
               /\ Len(response.data) < 4 * call.count

\* count = 2 answered with status 0x1E and 4 bytes of data: the status error
C12_Witness ==
    /\ call.op = "readInt32" /\ pre # NoSession /\ call.count = 2
    /\ response.kind = "reply" /\ response.status = 30 /\ Len(response.data) = 4
    /\ outcome.kind = "status"

====
